---- MODULE Spec2Model ----
(***************************************************************************)
(* Model of cloud/docker/docker_service.py: ContainerManager.exec_module,  *)
(* cmd_up, cmd_down, cmd_stop, cmd_restart and cmd_scale, run against a    *)
(* docker-compose project.  The compose project (convergence_plan, up,     *)
(* stop, restart, down, scale, containers) is the external runtime; it is  *)
(* modelled after sections 4.1-4.4 and 6 of the specification.             *)
(***************************************************************************)
EXTENDS Integers, Sequences, FiniteSets, TLC

VARIABLES
    containers,  \* runtime: service -> sequence of containers (index = number)
    params,      \* module parameters copied onto the manager (lines 420-421)
    pc,          \* position of the invocation inside exec_module / cmd_up
    result,      \* the result dict being built by cmd_up / cmd_down
    upQueue,     \* services project.up still has to converge, in order
    scaleQueue,  \* services the loop of cmd_scale still has to visit
    scaleFrag,   \* the result dict local to cmd_scale
    calls,       \* runtime calls issued by the current invocation, in order
    frags,       \* the result dict each operation of the invocation returned
    snap0,       \* runtime snapshot at the start of the current invocation
    first        \* what the first invocation did, once a second one started

vars == <<containers, params, pc, result, upQueue, scaleQueue,
          scaleFrag, calls, frags, snap0, first>>

----------------------------------------------------------------------------
(* Bounds of the model *)

\* most containers the replicated service (web) has in an initial snapshot,
\* and the largest replica count a scale entry asks for
MaxContainers == 2

----------------------------------------------------------------------------
(* The service graph *)

Services == {"db", "web"}

\* a name the services filter can carry that the graph does not declare
Ghost == "ghost"

\* the graph of the examples (lines 224-237): db, then web, which depends
\* on db
Graph ==
    [decl |-> <<"db", "web">>,
     deps |-> [s \in Services |-> IF s = "web" THEN {"db"} ELSE {}]]

RECURSIVE Closure(_, _)
\* the services of S together with everything they transitively depend on
Closure(g, S) ==
    LET T == S \cup UNION {g.deps[s] : s \in S}
    IN  IF T = S THEN S ELSE Closure(g, T)

RECURSIVE TopoSort(_, _, _)
\* stable topological sort of the services of S: the first service in
\* declaration order whose dependencies inside S are all placed goes next
TopoSort(g, S, placed) ==
    IF \A s \in S : \E i \in 1..Len(placed) : placed[i] = s
    THEN placed
    ELSE LET done == {placed[i] : i \in 1..Len(placed)}
             ready == {i \in 1..Len(g.decl) :
                          /\ g.decl[i] \in S \ done
                          /\ (g.deps[g.decl[i]] \cap S) \subseteq done}
             k == CHOOSE i \in ready : \A j \in ready : i <= j
         IN  TopoSort(g, S, Append(placed, g.decl[k]))

\* order(graph, requestedServices, includeDependencies)
order(g, requested, includeDependencies) ==
    LET wanted == IF requested = {} THEN Services ELSE requested
    IN  IF includeDependencies
        THEN TopoSort(g, Closure(g, wanted), <<>>)
        ELSE SelectSeq(g.decl, LAMBDA s : s \in wanted)

\* self.project.services: the services of the project in resolved order
project_services == order(Graph, {}, TRUE)

----------------------------------------------------------------------------
(* The runtime: containers of the compose project *)

\* a container: fp = its fingerprint equals the one of its service's current
\* specification; running = State.Running
Container == [fp : BOOLEAN, running : BOOLEAN]

NewContainer == [fp |-> TRUE, running |-> TRUE]

RECURSIVE SeqsUpTo(_, _)
\* all sequences over S of length at most n
SeqsUpTo(S, n) ==
    IF n = 0 THEN {<<>>}
    ELSE LET shorter == SeqsUpTo(S, n - 1)
         IN  shorter \cup {Append(q, x) : q \in {r \in shorter : Len(r) = n - 1}, x \in S}

\* initial snapshots: db is a single-instance service, web is replicated
Snapshots ==
    {c \in [Services -> SeqsUpTo(Container, MaxContainers)] : Len(c["db"]) <= 1}

\* service.containers(stopped=True): the numbers of all containers
AllContainers(cs) == 1..Len(cs)

\* service.containers(stopped=False): the numbers of the running containers
RunningContainers(cs) == {i \in 1..Len(cs) : cs[i].running}

\* convergence_strategy_from_opts(up_options)
convergence_strategy_from_opts(no_recreate, force_recreate) ==
    IF force_recreate THEN "always"
    ELSE IF no_recreate THEN "never"
    ELSE "changed"

\* service.convergence_plan(strategy): the per-service decision rule
convergence_plan(cs, strategy) ==
    IF Len(cs) = 0
    THEN [action |-> "create", containers |-> {}]
    ELSE IF strategy = "always"
    THEN [action |-> "recreate", containers |-> AllContainers(cs)]
    ELSE IF strategy = "changed" /\ \E i \in 1..Len(cs) : ~cs[i].fp
    THEN [action |-> "recreate", containers |-> AllContainers(cs)]
    ELSE IF \E i \in 1..Len(cs) : ~cs[i].running
    THEN [action |-> "start", containers |-> AllContainers(cs) \ RunningContainers(cs)]
    ELSE [action |-> "noop", containers |-> {}]

\* what executing a plan entry leaves of the containers of its service
execute_convergence_plan(cs, plan) ==
    CASE plan.action = "create"   -> <<NewContainer>>
      [] plan.action = "recreate" -> [i \in 1..Len(cs) |-> NewContainer]
      [] plan.action = "start"    -> [i \in 1..Len(cs) |-> [cs[i] EXCEPT !.running = TRUE]]
      [] OTHER                    -> cs

\* line 514, 606, 633: not service_names or service.name in service_names
Targeted(service_names, s) == service_names = {} \/ s \in service_names

\* project.stop(service_names)
project_stop(cont, service_names) ==
    [s \in Services |->
        IF Targeted(service_names, s)
        THEN [i \in 1..Len(cont[s]) |-> [cont[s][i] EXCEPT !.running = FALSE]]
        ELSE cont[s]]

\* project.restart(service_names)
project_restart(cont, service_names) ==
    [s \in Services |->
        IF Targeted(service_names, s)
        THEN [i \in 1..Len(cont[s]) |-> [cont[s][i] EXCEPT !.running = TRUE]]
        ELSE cont[s]]

\* project.down(image_type, remove_volumes, remove_orphans)
project_down(cont) == [s \in Services |-> <<>>]

\* service.scale(n): the service ends with n containers
service_scale(cs, n) ==
    IF n <= Len(cs) THEN SubSeq(cs, 1, n)
    ELSE cs \o [i \in 1..(n - Len(cs)) |-> NewContainer]

----------------------------------------------------------------------------
(* Module parameters *)

EmptyScale == [x \in {} |-> 0]

ScaleMaps ==
    {EmptyScale}
      \cup [{"web"} -> 1..MaxContainers]
      \cup [{"db", "web"} -> {MaxContainers}]

\* services: nothing (all services) or a subset of the graph
Filters == {{}, {"web"}}

\* the same with a name the graph does not declare
UnknownScaleMaps == [{Ghost} -> {1}] \cup [{"web", Ghost} -> {MaxContainers}]

UnknownFilters == {{Ghost}, {"web", Ghost}}

\* state=present: the parameters cmd_up and its helpers read
PresentParams ==
    [state : {"present"}, services : Filters, dependencies : BOOLEAN,
     force_recreate : BOOLEAN, recreate : BOOLEAN, stopped : BOOLEAN,
     restarted : BOOLEAN, scale : ScaleMaps, remove_volumes : {FALSE},
     check_mode : BOOLEAN, diff : BOOLEAN]

\* state=absent: the parameters cmd_down reads, and the services filter,
\* which it does not read
AbsentParams ==
    [state : {"absent"}, services : Filters, dependencies : {TRUE},
     force_recreate : {FALSE}, recreate : {TRUE}, stopped : {FALSE},
     restarted : {FALSE}, scale : {EmptyScale}, remove_volumes : BOOLEAN,
     check_mode : BOOLEAN, diff : BOOLEAN]

Params == PresentParams \cup AbsentParams

\* state=present with an undeclared name in services or in scale
UnknownParams ==
    {p \in [state : {"present"}, services : Filters \cup UnknownFilters,
            dependencies : BOOLEAN, force_recreate : BOOLEAN, recreate : BOOLEAN,
            stopped : BOOLEAN, restarted : BOOLEAN,
            scale : ScaleMaps \cup UnknownScaleMaps, remove_volumes : {FALSE},
            check_mode : BOOLEAN, diff : BOOLEAN] :
        p.services \in UnknownFilters \/ p.scale \in UnknownScaleMaps}

----------------------------------------------------------------------------
(* Result dicts *)

\* result['diff'][service]: absent, or a dict with one action key and its
\* list of container numbers, or (scale) a signed delta
NoEntry == [present |-> FALSE, action |-> "", names |-> {}, delta |-> 0]

Entry(action, names) ==
    [present |-> TRUE, action |-> action, names |-> names, delta |-> 0]

ScaleEntry(delta) ==
    [present |-> TRUE, action |-> "scale", names |-> {}, delta |-> delta]

\* dict(changed=False, diff=dict())
EmptyFrag == [changed |-> FALSE, diff |-> [s \in Services |-> NoEntry]]

\* dict(changed=False, diff=dict(), ansible_facts=dict())
EmptyResult ==
    [changed |-> FALSE, diff |-> [s \in Services |-> NoEntry],
     ansible_facts |-> [s \in Services |-> <<>>]]

\* result.update(fragment): the keys of the fragment replace those of result
Update(res, frag) == [res EXCEPT !.changed = frag.changed, !.diff = frag.diff]

\* variant of UpStrategy: u'--no-recreate' set to self.recreate, the "not" lost
UpStrategy_DroppedNot(p) ==
    convergence_strategy_from_opts(
        IF p.force_recreate THEN FALSE ELSE p.recreate, p.force_recreate)

\* variant of UpStrategy: u'--force-recreate' never passed on
UpStrategy_NoForce(p) ==
    convergence_strategy_from_opts(~p.recreate, FALSE)

\* the strategy cmd_up asks for: up_options of lines 498-508
UpStrategy(p) ==
    convergence_strategy_from_opts(
        IF p.force_recreate THEN FALSE ELSE ~p.recreate, p.force_recreate)

\* variant of cmd_up_plan: every plan counts as a change, noop included
cmd_up_plan_CountsNoop(cont, p) ==
    LET plan(s) == convergence_plan(cont[s], UpStrategy(p))
    IN  [changed |-> \E s \in Services : Targeted(p.services, s),
         diff |-> [s \in Services |->
                     IF p.diff /\ Targeted(p.services, s)
                     THEN Entry(plan(s).action, plan(s).containers)
                     ELSE NoEntry]]

\* variant of cmd_up_plan: a plan of start does not count as a change
cmd_up_plan_StartUnchanged(cont, p) ==
    LET plan(s) == convergence_plan(cont[s], UpStrategy(p))
    IN  [changed |-> \E s \in Services :
                        Targeted(p.services, s) /\ plan(s).action \notin {"noop", "start"},
         diff |-> [s \in Services |->
                     IF p.diff /\ Targeted(p.services, s)
                     THEN Entry(plan(s).action, plan(s).containers)
                     ELSE NoEntry]]

\* cmd_up, lines 513-526: the plan of every targeted service
cmd_up_plan(cont, p) ==
    LET plan(s) == convergence_plan(cont[s], UpStrategy(p))
    IN  [changed |-> \E s \in Services :
                        Targeted(p.services, s) /\ plan(s).action # "noop",
         diff |-> [s \in Services |->
                     IF p.diff /\ Targeted(p.services, s)
                     THEN Entry(plan(s).action, plan(s).containers)
                     ELSE NoEntry]]

\* variant of cmd_stop: service.containers(stopped=True), as cmd_restart has it
cmd_stop_AllContainers(cont, p) ==
    [changed |-> \E s \in Services :
                    Targeted(p.services, s) /\ AllContainers(cont[s]) # {},
     diff |-> [s \in Services |->
                 IF Targeted(p.services, s)
                 THEN Entry("stop", IF p.diff THEN AllContainers(cont[s]) ELSE {})
                 ELSE NoEntry]]

\* cmd_stop, lines 601-616: the result fragment
cmd_stop(cont, p) ==
    [changed |-> \E s \in Services :
                    Targeted(p.services, s) /\ RunningContainers(cont[s]) # {},
     diff |-> [s \in Services |->
                 IF Targeted(p.services, s)
                 THEN Entry("stop", IF p.diff THEN RunningContainers(cont[s]) ELSE {})
                 ELSE NoEntry]]

\* variant of cmd_restart: service.containers(stopped=False), as cmd_stop has it
cmd_restart_RunningOnly(cont, p) ==
    [changed |-> \E s \in Services :
                    Targeted(p.services, s) /\ RunningContainers(cont[s]) # {},
     diff |-> [s \in Services |->
                 IF Targeted(p.services, s)
                 THEN Entry("restart", IF p.diff THEN RunningContainers(cont[s]) ELSE {})
                 ELSE NoEntry]]

\* cmd_restart, lines 627-643: the result fragment
cmd_restart(cont, p) ==
    [changed |-> \E s \in Services :
                    Targeted(p.services, s) /\ AllContainers(cont[s]) # {},
     diff |-> [s \in Services |->
                 IF Targeted(p.services, s)
                 THEN Entry("restart", IF p.diff THEN AllContainers(cont[s]) ELSE {})
                 ELSE NoEntry]]

\* variant of ScaleDiffers: every service of the scale dict is scaled, whether
\* or not its count differs
ScaleDiffers_IgnoresCount(cont, p, s) == s \in DOMAIN p.scale

\* cmd_scale, line 663: the service is in the scale dict and its count differs
ScaleDiffers(cont, p, s) ==
    s \in DOMAIN p.scale /\ Len(cont[s]) # p.scale[s]

\* variant of cmd_scale_service: the delta is len(containers) - scale[name]
cmd_scale_service_NegatedDelta(frag, cont, p, s) ==
    IF s \notin DOMAIN p.scale THEN frag
    ELSE [changed |-> frag.changed \/ ScaleDiffers(cont, p, s),
          diff |-> [frag.diff EXCEPT ![s] =
                      IF ScaleDiffers(cont, p, s) /\ p.diff
                      THEN ScaleEntry(Len(cont[s]) - p.scale[s])
                      ELSE Entry("", {})]]

\* cmd_scale, lines 660-666: one pass of the loop over the result fragment
cmd_scale_service(frag, cont, p, s) ==
    IF s \notin DOMAIN p.scale THEN frag
    ELSE [changed |-> frag.changed \/ ScaleDiffers(cont, p, s),
          diff |-> [frag.diff EXCEPT ![s] =
                      IF ScaleDiffers(cont, p, s) /\ p.diff
                      THEN ScaleEntry(p.scale[s] - Len(cont[s]))
                      ELSE Entry("", {})]]

\* variant of cmd_down: only the services of the filter are looked at, as
\* cmd_stop and cmd_restart do
cmd_down_Filtered(cont, p) ==
    [changed |-> \E s \in Services : Targeted(p.services, s) /\ Len(cont[s]) # 0,
     diff |-> [s \in Services |->
                 IF p.diff /\ Targeted(p.services, s)
                 THEN Entry("deleted", AllContainers(cont[s]))
                 ELSE NoEntry],
     ansible_facts |-> [s \in Services |-> <<>>]]

\* variant of cmd_down: service.containers() without stopped=True
cmd_down_RunningOnly(cont, p) ==
    [changed |-> \E s \in Services : RunningContainers(cont[s]) # {},
     diff |-> [s \in Services |->
                 IF p.diff THEN Entry("deleted", RunningContainers(cont[s]))
                 ELSE NoEntry],
     ansible_facts |-> [s \in Services |-> <<>>]]

\* cmd_down, lines 578-589: the result
cmd_down(cont, p) ==
    [changed |-> \E s \in Services : Len(cont[s]) # 0,
     diff |-> [s \in Services |->
                 IF p.diff THEN Entry("deleted", AllContainers(cont[s]))
                 ELSE NoEntry],
     ansible_facts |-> [s \in Services |-> <<>>]]

\* variant of collect_facts: service.containers() without stopped=True
collect_facts_RunningOnly(cont) ==
    [s \in Services |->
        [i \in 1..Cardinality(RunningContainers(cont[s])) |-> TRUE]]

\* cmd_up, lines 549-573: the facts of every container of every service
collect_facts(cont) ==
    [s \in Services |-> [i \in 1..Len(cont[s]) |-> cont[s][i].running]]

----------------------------------------------------------------------------
(* The invocation *)

Call(op, svc) == [op |-> op, svc |-> svc]

\* the result dict an operation returned, tagged with the operation
Frag(op, frag) == [op |-> op, changed |-> frag.changed, diff |-> frag.diff]

\* variant of ShouldExecute: check mode is not looked at
ShouldExecute_IgnoresCheckMode(p, changed) == changed

\* variant of ShouldExecute: the call is made whether or not anything changed
ShouldExecute_IgnoresChanged(p, changed) == ~p.check_mode

\* lines 528, 591, 618, 645: if not self.check_mode and result['changed']
ShouldExecute(p, changed) == ~p.check_mode /\ changed

NoFirst ==
    [ran |-> FALSE, check_mode |-> FALSE, changed |-> FALSE,
     diff |-> [s \in Services |-> NoEntry],
     snap0 |-> [s \in Services |-> <<>>]]

\* variant of AfterUp: the test of self.stopped is missing
AfterUp_SkipsStop(p) == IF p.restarted THEN "restart"
                        ELSE IF DOMAIN p.scale # {} THEN "scale" ELSE "facts"

\* where cmd_up goes after the up step, the stop step and the restart step
AfterRestart(p) == IF DOMAIN p.scale # {} THEN "scale" ELSE "facts"
AfterStop(p) == IF p.restarted THEN "restart" ELSE AfterRestart(p)
AfterUp(p) == IF p.stopped THEN "stop" ELSE AfterStop(p)

\* move on; entering cmd_scale sets up its loop and its local result
Goto(next) ==
    /\ pc' = next
    /\ IF next = "scale"
       THEN /\ scaleQueue' = project_services
            /\ scaleFrag' = EmptyFrag
       ELSE UNCHANGED <<scaleQueue, scaleFrag>>

\* a service name the graph does not declare makes the project call raise
KnownServices(p) == p.services \subseteq Services

Init ==
    /\ containers \in Snapshots
    /\ params \in Params
    /\ pc = "start"
    /\ result = EmptyResult
    /\ upQueue = <<>>
    /\ scaleQueue = <<>>
    /\ scaleFrag = EmptyFrag
    /\ calls = <<>>
    /\ frags = <<>>
    /\ snap0 = containers
    /\ first = NoFirst

\* cmd_up, lines 491-528: the plan loop and the decision to call up
CmdUpPlan ==
    /\ pc = "start"
    /\ params.state = "present"
    /\ result' = Update(EmptyResult, cmd_up_plan(containers, params))
    /\ frags' = <<Frag("up", cmd_up_plan(containers, params))>>
    /\ Goto(IF ShouldExecute(params, result'.changed) THEN "up" ELSE AfterUp(params))
    /\ UNCHANGED <<containers, params, upQueue, calls, snap0, first>>

\* cmd_up, lines 529-536: project.up resolves the services to converge
ProjectUp ==
    /\ pc = "up"
    /\ KnownServices(params)
    /\ calls' = Append(calls, Call("up", "*"))
    /\ upQueue' = order(Graph, params.services, params.dependencies)
    /\ pc' = "converge"
    /\ UNCHANGED <<containers, params, result, scaleQueue, scaleFrag, frags, snap0, first>>

\* cmd_up, lines 537-538: project.up raises on an unknown service name
ProjectUpUnknown ==
    /\ pc = "up"
    /\ ~KnownServices(params)
    /\ calls' = Append(calls, Call("up", "*"))
    /\ pc' = "failed"
    /\ UNCHANGED <<containers, params, result, upQueue, scaleQueue, scaleFrag, frags, snap0, first>>

\* project.up: the next service in resolved order is converged
Converge ==
    /\ pc = "converge"
    /\ upQueue # <<>>
    /\ LET s == Head(upQueue)
           plan == convergence_plan(containers[s], UpStrategy(params))
       IN  /\ containers' = [containers EXCEPT ![s] = execute_convergence_plan(@, plan)]
           /\ calls' = IF plan.action = "noop" THEN calls
                       ELSE Append(calls, Call(plan.action, s))
    /\ upQueue' = Tail(upQueue)
    /\ Goto(IF upQueue' = <<>> THEN AfterUp(params) ELSE "converge")
    /\ UNCHANGED <<params, result, frags, snap0, first>>

\* cmd_up, lines 537-538: a runtime call of project.up raises
ConvergeFails ==
    /\ pc = "converge"
    /\ upQueue # <<>>
    /\ LET s == Head(upQueue)
           plan == convergence_plan(containers[s], UpStrategy(params))
       IN  /\ plan.action # "noop"
           /\ calls' = Append(calls, Call(plan.action, s))
    /\ pc' = "failed"
    /\ UNCHANGED <<containers, params, result, upQueue, scaleQueue, scaleFrag, frags, snap0, first>>

\* cmd_up, lines 540-541 with cmd_stop
CmdStop ==
    /\ pc = "stop"
    /\ LET frag == cmd_stop(containers, params)
       IN  /\ result' = Update(result, frag)
           /\ frags' = Append(frags, Frag("stop", frag))
           /\ IF ShouldExecute(params, frag.changed)
              THEN /\ KnownServices(params)
                   /\ containers' = project_stop(containers, params.services)
                   /\ calls' = Append(calls, Call("stop", "*"))
              ELSE UNCHANGED <<containers, calls>>
    /\ Goto(AfterStop(params))
    /\ UNCHANGED <<params, upQueue, snap0, first>>

\* cmd_stop, lines 621-622: project.stop raises
CmdStopFails ==
    /\ pc = "stop"
    /\ ShouldExecute(params, cmd_stop(containers, params).changed)
    /\ calls' = Append(calls, Call("stop", "*"))
    /\ pc' = "failed"
    /\ UNCHANGED <<containers, params, result, upQueue, scaleQueue, scaleFrag, frags, snap0, first>>

\* cmd_up, lines 543-544 with cmd_restart
CmdRestart ==
    /\ pc = "restart"
    /\ LET frag == cmd_restart(containers, params)
       IN  /\ result' = Update(result, frag)
           /\ frags' = Append(frags, Frag("restart", frag))
           /\ IF ShouldExecute(params, frag.changed)
              THEN /\ KnownServices(params)
                   /\ containers' = project_restart(containers, params.services)
                   /\ calls' = Append(calls, Call("restart", "*"))
              ELSE UNCHANGED <<containers, calls>>
    /\ Goto(AfterRestart(params))
    /\ UNCHANGED <<params, upQueue, snap0, first>>

\* cmd_restart, lines 648-649: project.restart raises
CmdRestartFails ==
    /\ pc = "restart"
    /\ ShouldExecute(params, cmd_restart(containers, params).changed)
    /\ calls' = Append(calls, Call("restart", "*"))
    /\ pc' = "failed"
    /\ UNCHANGED <<containers, params, result, upQueue, scaleQueue, scaleFrag, frags, snap0, first>>

\* cmd_up, lines 546-547 with cmd_scale: one pass of the loop of lines
\* 659-671; after the last pass the fragment is merged into the result
CmdScaleService ==
    /\ pc = "scale"
    /\ scaleQueue # <<>>
    /\ LET s == Head(scaleQueue)
       IN  /\ scaleFrag' = cmd_scale_service(scaleFrag, containers, params, s)
           /\ IF ScaleDiffers(containers, params, s) /\ ~params.check_mode
              THEN /\ containers' = [containers EXCEPT ![s] = service_scale(@, params.scale[s])]
                   /\ calls' = Append(calls, Call("scale", s))
              ELSE UNCHANGED <<containers, calls>>
    /\ scaleQueue' = Tail(scaleQueue)
    /\ IF scaleQueue' = <<>>
       THEN /\ result' = Update(result, scaleFrag')
            /\ frags' = Append(frags, Frag("scale", scaleFrag'))
            /\ pc' = "facts"
       ELSE UNCHANGED <<result, frags, pc>>
    /\ UNCHANGED <<params, upQueue, snap0, first>>

\* cmd_scale, lines 670-671: service.scale raises
CmdScaleServiceFails ==
    /\ pc = "scale"
    /\ scaleQueue # <<>>
    /\ ScaleDiffers(containers, params, Head(scaleQueue))
    /\ ~params.check_mode
    /\ calls' = Append(calls, Call("scale", Head(scaleQueue)))
    /\ pc' = "failed"
    /\ UNCHANGED <<containers, params, result, upQueue, scaleQueue, scaleFrag, frags, snap0, first>>

\* variant of CollectFacts: self.fail returns instead of leaving the module,
\* and cmd_up goes on to collect the facts and return
CollectFacts_AfterFailure ==
    /\ pc \in {"facts", "failed"}
    /\ result' = [result EXCEPT !.ansible_facts = collect_facts(containers)]
    /\ pc' = "done"
    /\ UNCHANGED <<containers, params, upQueue, scaleQueue, scaleFrag, calls, frags, snap0, first>>

\* cmd_up, lines 549-575: facts are collected and the result returned
CollectFacts ==
    /\ pc = "facts"
    /\ result' = [result EXCEPT !.ansible_facts = collect_facts(containers)]
    /\ pc' = "done"
    /\ UNCHANGED <<containers, params, upQueue, scaleQueue, scaleFrag, calls, frags, snap0, first>>

\* cmd_down, lines 577-598
CmdDown ==
    /\ pc = "start"
    /\ params.state = "absent"
    /\ result' = cmd_down(containers, params)
    /\ frags' = <<Frag("down", cmd_down(containers, params))>>
    /\ IF ShouldExecute(params, result'.changed)
       THEN /\ containers' = project_down(containers)
            /\ calls' = Append(calls, Call("down", "*"))
       ELSE UNCHANGED <<containers, calls>>
    /\ pc' = "done"
    /\ UNCHANGED <<params, upQueue, scaleQueue, scaleFrag, snap0, first>>

\* cmd_down, lines 595-596: project.down raises
CmdDownFails ==
    /\ pc = "start"
    /\ params.state = "absent"
    /\ ShouldExecute(params, cmd_down(containers, params).changed)
    /\ calls' = Append(calls, Call("down", "*"))
    /\ pc' = "failed"
    /\ UNCHANGED <<containers, params, result, upQueue, scaleQueue, scaleFrag, frags, snap0, first>>

\* main, lines 708-709, run once more: after an execute-mode invocation the
\* module is invoked again with the same parameters, and nothing else touched
\* the runtime in between
Reinvoke ==
    /\ pc = "done"
    /\ ~first.ran
    /\ ~params.check_mode
    /\ first' = [ran |-> TRUE, check_mode |-> FALSE,
                 changed |-> result.changed, diff |-> result.diff,
                 snap0 |-> snap0]
    /\ pc' = "start"
    /\ result' = EmptyResult
    /\ calls' = <<>>
    /\ frags' = <<>>
    /\ snap0' = containers
    /\ UNCHANGED <<containers, params, upQueue, scaleQueue, scaleFrag>>

\* main, lines 708-709, run once more: after a check-mode invocation the
\* module is invoked with the same parameters in execute mode
RunForReal ==
    /\ pc = "done"
    /\ ~first.ran
    /\ params.check_mode
    /\ first' = [ran |-> TRUE, check_mode |-> TRUE,
                 changed |-> result.changed, diff |-> result.diff,
                 snap0 |-> snap0]
    /\ params' = [params EXCEPT !.check_mode = FALSE]
    /\ pc' = "start"
    /\ result' = EmptyResult
    /\ calls' = <<>>
    /\ frags' = <<>>
    /\ snap0' = containers
    /\ UNCHANGED <<containers, upQueue, scaleQueue, scaleFrag>>

\* exec_module with state=present: cmd_up
InvocationUp ==
    \/ CmdUpPlan
    \/ ProjectUp
    \/ Converge
    \/ ConvergeFails
    \/ CmdStop
    \/ CmdStopFails
    \/ CmdRestart
    \/ CmdRestartFails
    \/ CmdScaleService
    \/ CmdScaleServiceFails
    \/ CollectFacts

\* exec_module, lines 465-480: cmd_up or cmd_down
Invocation ==
    \/ InvocationUp
    \/ CmdDown
    \/ CmdDownFails

\* one invocation of the module from any snapshot
Next == Invocation

Spec == Init /\ [][Next]_vars

\* one invocation whose parameters name a service the graph does not declare
InitUnknown ==
    /\ containers \in Snapshots
    /\ params \in UnknownParams
    /\ pc = "start"
    /\ result = EmptyResult
    /\ upQueue = <<>>
    /\ scaleQueue = <<>>
    /\ scaleFrag = EmptyFrag
    /\ calls = <<>>
    /\ frags = <<>>
    /\ snap0 = containers
    /\ first = NoFirst

NextUnknown == InvocationUp \/ ProjectUpUnknown

SpecUnknown == InitUnknown /\ [][NextUnknown]_vars

\* an execute-mode invocation followed by a second one with the same parameters
InitRepeat == Init /\ ~params.check_mode

NextRepeat == Invocation \/ Reinvoke

SpecRepeat == InitRepeat /\ [][NextRepeat]_vars

\* a check-mode invocation followed by the same invocation in execute mode
InitDryRun == Init /\ params.check_mode

NextDryRun == Invocation \/ RunForReal

SpecDryRun == InitDryRun /\ [][NextDryRun]_vars

----------------------------------------------------------------------------
(* Vocabulary of the properties *)

\* the services an invocation targets: all of them, or those of the filter
TargetedServices(p) == IF p.services = {} THEN Services ELSE p.services \cap Services

\* desired=present without force recreate, stopped, restarted or scale
NoModifiers(p) ==
    /\ p.state = "present"
    /\ ~p.force_recreate
    /\ ~p.stopped
    /\ ~p.restarted
    /\ DOMAIN p.scale = {}

\* every container of the service carries the current fingerprint and runs
AllMatchAndRun(cs) == \A i \in 1..Len(cs) : cs[i].fp /\ cs[i].running

\* the invocation returned its result to the caller
Returned == pc = "done"

\* the base convergence plan of the invocation has been computed
Planned == frags # <<>> /\ frags[1].op = "up"

----------------------------------------------------------------------------
(* C1 *)

\* C1: in check mode no invocation, whatever the desired state and the
\* modifiers, issues a runtime call, and the containers (their number, their
\* fingerprints, their running flags) stay as they were when it started.
C1_DryRunMutatesNothing ==
    params.check_mode => (calls = <<>> /\ containers = snap0)

\* a check-mode invocation with every modifier set returned changed = true
C1_Witness ==
    /\ Returned
    /\ params.check_mode
    /\ params.state = "present"
    /\ params.services = {"web"}
    /\ params.force_recreate
    /\ params.stopped
    /\ params.restarted
    /\ DOMAIN params.scale = {"db", "web"}
    /\ result.changed
    /\ Len(snap0["web"]) = 1

----------------------------------------------------------------------------
(* C2 *)

\* C2: an invocation run in execute mode returns the changed flag and the
\* diff that the same invocation returned in check mode from the same
\* initial snapshot.
C2_DryRunSameVerdict ==
    (Returned /\ first.ran /\ first.check_mode /\ first.snap0 = snap0)
        => (result.changed = first.changed /\ result.diff = first.diff)

----------------------------------------------------------------------------
(* C3 *)

\* C3: when every service has containers and all of them match the
\* fingerprint of the graph and run, desired=present without modifiers
\* returns changed = false, no service has an action other than none, and
\* up is not called.
C3_ConvergedIsNoop ==
    (Returned /\ NoModifiers(params)
        /\ \A s \in Services : Len(snap0[s]) > 0 /\ AllMatchAndRun(snap0[s]))
        => /\ ~result.changed
           /\ \A s \in Services : result.diff[s].action \in {"", "noop"}
           /\ calls = <<>>

\* an execute-mode invocation on a converged snapshot with two web containers
\* returned, with the plan in the diff
C3_Witness ==
    /\ Returned
    /\ NoModifiers(params)
    /\ ~params.check_mode
    /\ params.diff
    /\ params.services = {}
    /\ Len(snap0["db"]) = 1 /\ Len(snap0["web"]) = 2
    /\ \A s \in Services : AllMatchAndRun(snap0[s])
    /\ result.diff["web"].action = "noop"

----------------------------------------------------------------------------
(* C4 *)

----------------------------------------------------------------------------
(* C5 *)

\* C5: after an execute-mode invocation with desired=present, recreate
\* allowed, no stopped/restarted/scale modifier and no runtime failure, every
\* targeted service has at least one container and every container of a
\* targeted service runs with the fingerprint of the current specification.
C5_Convergence ==
    (Returned /\ ~params.check_mode /\ params.state = "present"
        /\ params.recreate /\ ~params.stopped /\ ~params.restarted
        /\ DOMAIN params.scale = {})
        => \A s \in TargetedServices(params) :
              Len(containers[s]) >= 1 /\ AllMatchAndRun(containers[s])

\* web had two containers, one drifted and one stopped, db had none; the
\* invocation returned
C5_Witness ==
    /\ Returned
    /\ ~params.check_mode
    /\ NoModifiers(params)
    /\ params.recreate
    /\ params.services = {}
    /\ Len(snap0["db"]) = 0
    /\ Len(snap0["web"]) = 2
    /\ ~snap0["web"][1].fp
    /\ ~snap0["web"][2].running
    /\ containers # snap0

----------------------------------------------------------------------------
(* C6 *)

\* the calls by which project.up acts on a service
ConvergeOps == {"create", "recreate", "start"}

\* the positions in calls at which the invocation acted on service s
ActedAt(s) == {i \in DOMAIN calls : calls[i].svc = s /\ calls[i].op \in ConvergeOps}

\* the position of service s in the order in which the plan is built
PlanPosition(s) == CHOOSE i \in DOMAIN project_services : project_services[i] = s

\* C6: for every edge A -> B of the graph (B depends on A), when an
\* execute-mode invocation acts on both A and B, it acts on A before it acts
\* on B, and the plan lists A before B.
C6_DependencyOrder ==
    \A a \in Services, b \in Services :
        (a \in Graph.deps[b] /\ ActedAt(a) # {} /\ ActedAt(b) # {})
            => /\ \A i \in ActedAt(a), j \in ActedAt(b) : i < j
               /\ params.diff =>
                    /\ frags[1].diff[a].present
                    /\ frags[1].diff[b].present
                    /\ PlanPosition(a) < PlanPosition(b)

----------------------------------------------------------------------------
(* C7 *)

\* C7: with force recreate, every targeted service that has a container gets
\* action recreate and changed = true, whether or not its fingerprint matches
\* and also when recreate is off; a targeted service without a container gets
\* create.  In execute mode that is the action up performs on it.
C7_ForceRecreateDominates ==
    (Planned /\ params.force_recreate)
        => \A s \in TargetedServices(params) :
              LET action == IF Len(snap0[s]) > 0 THEN "recreate" ELSE "create"
              IN  /\ Len(snap0[s]) > 0 => frags[1].changed
                  /\ params.diff =>
                        /\ frags[1].diff[s].action = action
                        /\ frags[1].diff[s].names = AllContainers(snap0[s])
                  /\ (Returned /\ ~params.check_mode)
                        => \E i \in DOMAIN calls : calls[i] = Call(action, s)

\* recreate off, force recreate on, web with one matching running container
\* and db without any: web was recreated and db created
C7_Witness ==
    /\ Returned
    /\ ~params.check_mode
    /\ params.force_recreate
    /\ ~params.recreate
    /\ params.diff
    /\ params.services = {}
    /\ snap0["web"] = <<NewContainer>>
    /\ snap0["db"] = <<>>
    /\ frags[1].diff["web"].action = "recreate"
    /\ frags[1].diff["db"].action = "create"

----------------------------------------------------------------------------
(* C8 *)

\* service s has a container whose fingerprint differs from the specification
Drifted(cs) == \E i \in 1..Len(cs) : ~cs[i].fp

\* C8 as claimed: a targeted service with a drifted container gets recreate
\* and changed = true when recreate is on; with recreate and force recreate
\* off it gets action none.
C8_DriftOriginal ==
    Planned
        => \A s \in TargetedServices(params) :
              Drifted(snap0[s])
                => /\ params.recreate
                        => /\ frags[1].changed
                           /\ params.diff => frags[1].diff[s].action = "recreate"
                   /\ (~params.recreate /\ ~params.force_recreate /\ params.diff)
                        => frags[1].diff[s].action = "noop"

\* C8 amended: a targeted service with a drifted container gets recreate and
\* changed = true when recreate is on; with recreate and force recreate off
\* the mismatch is ignored: the service is never recreated, it gets start
\* when one of its containers is not running and none otherwise.
C8_DriftAmended ==
    Planned
        => \A s \in TargetedServices(params) :
              Drifted(snap0[s])
                => /\ params.recreate
                        => /\ frags[1].changed
                           /\ params.diff => frags[1].diff[s].action = "recreate"
                   /\ (~params.recreate /\ ~params.force_recreate)
                        => /\ params.diff =>
                                frags[1].diff[s].action =
                                    IF RunningContainers(snap0[s]) # AllContainers(snap0[s])
                                    THEN "start" ELSE "noop"
                           /\ \A i \in DOMAIN calls : calls[i] # Call("recreate", s)

\* recreate off: web has a drifted stopped container and is started, db has a
\* drifted running container and is left alone
C8_Witness ==
    /\ Returned
    /\ ~params.check_mode
    /\ ~params.recreate
    /\ ~params.force_recreate
    /\ params.diff
    /\ params.services = {}
    /\ snap0["web"] = <<[fp |-> FALSE, running |-> FALSE]>>
    /\ snap0["db"] = <<[fp |-> FALSE, running |-> TRUE]>>
    /\ frags[1].diff["web"].action = "start"
    /\ frags[1].diff["db"].action = "noop"
    /\ \E i \in DOMAIN calls : calls[i] = Call("start", "web")

----------------------------------------------------------------------------
(* C9 *)

\* C9: the changed flag an invocation with desired=present returns is true
\* whenever the base plan or a modifier that was applied reported a change.
C9_ChangedAccumulates ==
    (Returned /\ params.state = "present")
        => ((\E i \in DOMAIN frags : frags[i].changed) => result.changed)

----------------------------------------------------------------------------
(* C10 *)

\* C10: stop reports changed = true iff a container of a targeted service is
\* running; when a diff is asked for, it lists exactly the running containers
\* of each targeted service; in execute mode the stop call is issued iff
\* changed is true; containers of services not targeted are left untouched.
C10_Stop ==
    [][pc = "stop" =>
        LET targeted == TargetedServices(params)
            running(s) == {i \in 1..Len(containers[s]) : containers[s][i].running}
            anyRunning == \E s \in targeted : running(s) # {}
            issued == calls' = Append(calls, Call("stop", "*"))
        IN  /\ pc' # "failed" =>
                /\ result'.changed = anyRunning
                /\ params.diff =>
                      \A s \in Services :
                          result'.diff[s] =
                              IF s \in targeted THEN Entry("stop", running(s)) ELSE NoEntry
            /\ issued \/ calls' = calls
            /\ issued <=> (~params.check_mode /\ anyRunning)
            /\ \A s \in Services \ targeted : containers'[s] = containers[s]
      ]_vars

\* stop ran in execute mode on web only: both web containers are listed and
\* stopped, the running db container is untouched
C10_Witness ==
    /\ Returned
    /\ ~params.check_mode
    /\ params.stopped /\ ~params.restarted /\ DOMAIN params.scale = {}
    /\ params.diff
    /\ params.services = {"web"}
    /\ result.changed
    /\ result.diff["web"] = Entry("stop", {1, 2})
    /\ calls = <<Call("stop", "*")>>
    /\ containers["db"] = <<NewContainer>>
    /\ \A i \in 1..Len(containers["web"]) : ~containers["web"][i].running

----------------------------------------------------------------------------
(* C11 *)

\* C11: restart reports changed = true iff a container, running or stopped,
\* of a targeted service exists; when a diff is asked for, it lists all the
\* containers of each targeted service; in execute mode the restart call is
\* issued iff changed is true.
C11_Restart ==
    [][pc = "restart" =>
        LET targeted == TargetedServices(params)
            all(s) == 1..Len(containers[s])
            anyContainer == \E s \in targeted : Len(containers[s]) > 0
            issued == calls' = Append(calls, Call("restart", "*"))
        IN  /\ pc' # "failed" =>
                /\ result'.changed = anyContainer
                /\ params.diff =>
                      \A s \in Services :
                          result'.diff[s] =
                              IF s \in targeted THEN Entry("restart", all(s)) ELSE NoEntry
            /\ issued \/ calls' = calls
            /\ issued <=> (~params.check_mode /\ anyContainer)
      ]_vars

\* restart ran in execute mode on web only, whose containers were both
\* stopped: both are listed and run afterwards
C11_Witness ==
    /\ Returned
    /\ ~params.check_mode
    /\ ~params.recreate /\ ~params.force_recreate
    /\ params.stopped /\ params.restarted /\ DOMAIN params.scale = {}
    /\ params.diff
    /\ params.services = {"web"}
    /\ result.changed
    /\ result.diff["web"] = Entry("restart", {1, 2})
    /\ result.diff["db"] = NoEntry
    /\ calls # <<>> /\ calls[Len(calls)] = Call("restart", "*")
    /\ \A i \in 1..Len(containers["web"]) : containers["web"][i].running

----------------------------------------------------------------------------
(* C12 *)

\* C12: with desired=absent, changed is true iff some service of the graph
\* has a container, running or stopped; when a diff is asked for, it lists
\* every container of each service as deleted; in execute mode exactly one
\* down call is issued when changed is true and none when it is false; in
\* check mode none is issued.
C12_Teardown ==
    (params.state = "absent" /\ pc # "start")
        => LET any == \E s \in Services : Len(snap0[s]) > 0
           IN  /\ calls = IF ~params.check_mode /\ any
                          THEN <<Call("down", "*")>> ELSE <<>>
               /\ Returned =>
                    /\ result.changed = any
                    /\ params.diff =>
                          \A s \in Services :
                              result.diff[s] = Entry("deleted", 1..Len(snap0[s]))

\* teardown in execute mode of a project whose only containers are two
\* stopped web containers
C12_Witness ==
    /\ Returned
    /\ params.state = "absent"
    /\ ~params.check_mode
    /\ params.diff
    /\ snap0["db"] = <<>>
    /\ Len(snap0["web"]) = 2
    /\ \A i \in 1..2 : ~snap0["web"][i].running
    /\ result.changed
    /\ result.diff["web"] = Entry("deleted", {1, 2})
    /\ calls = <<Call("down", "*")>>
    /\ \A s \in Services : containers[s] = <<>>

----------------------------------------------------------------------------
(* C13 *)

\* the scale step is visiting a service named in the scale dict
ScalingNamed == pc = "scale" /\ Head(scaleQueue) \in DOMAIN params.scale

----------------------------------------------------------------------------
(* C14 *)

\* C14: a pass of the scale step issues at most one call, a scale call for
\* the service it visits, and only when that service is named in the scale
\* dict and its count differs from the target; the containers of every other
\* service, those not named in the scale dict among them, are after the pass
\* what they were before it.
C14_ScaleFrame ==
    [][pc = "scale" =>
        LET s == Head(scaleQueue)
            issued == calls' = Append(calls, Call("scale", s))
        IN  /\ issued \/ calls' = calls
            /\ issued => /\ s \in DOMAIN params.scale
                         /\ Len(containers[s]) # params.scale[s]
                         /\ ~params.check_mode
            /\ \A t \in Services :
                  (t # s \/ t \notin DOMAIN params.scale) => containers'[t] = containers[t]
      ]_vars

\* scale {web: 2} in execute mode added a web container and left the stopped
\* db container as it was
C14_Witness ==
    /\ Returned
    /\ ~params.check_mode
    /\ params.services = {"web"}
    /\ ~params.dependencies
    /\ DOMAIN params.scale = {"web"}
    /\ snap0["db"] = <<[fp |-> FALSE, running |-> FALSE]>>
    /\ Len(snap0["web"]) = 1
    /\ calls # <<>> /\ calls[Len(calls)] = Call("scale", "web")
    /\ Len(containers["web"]) = 2
    /\ containers["db"] = snap0["db"]

----------------------------------------------------------------------------
(* C15 *)

\* C15: an invocation whose services filter names a service the graph does
\* not declare fails: in check mode and in execute mode alike, and whatever
\* the containers of the other services, it never returns a result.
C15_UnknownServiceFails ==
    ~KnownServices(params) => ~Returned

----------------------------------------------------------------------------
(* C16 *)

\* C16: an invocation whose scale dict names a service the graph does not
\* declare fails, in check mode and in execute mode: it never returns a
\* result.
C16_UnknownScaleFails ==
    ~(DOMAIN params.scale \subseteq Services) => ~Returned

----------------------------------------------------------------------------
(* C17 *)

\* the invocation ended in self.fail
Failed == pc = "failed"

\* C17: when a runtime call (up, down, stop, restart, the scale of one
\* service) fails, the invocation ends in the error state with that call as
\* its last one: the failing step changes no container and merges nothing
\* into the result, and from the error state nothing more happens, so no
\* later call is issued, later modifiers and later services' scale calls are
\* skipped, and no result is returned.
C17_AbortOnFailure ==
    [][/\ ~Failed
       /\ Failed' =>
            /\ \E c \in {Call(op, svc) : op \in {"up", "down", "stop", "restart", "scale"}
                                                 \cup ConvergeOps,
                                         svc \in Services \cup {"*"}} :
                  calls' = Append(calls, c)
            /\ ~params.check_mode
            /\ UNCHANGED <<containers, result, frags, scaleQueue, scaleFrag>>
      ]_vars

\* the scale call of db failed after a stop and a restart; the scale of web
\* was still to come
C17_Witness ==
    /\ Failed
    /\ params.stopped /\ params.restarted
    /\ DOMAIN params.scale = {"db", "web"}
    /\ calls # <<>> /\ calls[Len(calls)] = Call("scale", "db")
    /\ \E i \in DOMAIN calls : calls[i] = Call("restart", "*")
    /\ scaleQueue = <<"db", "web">>
    /\ Len(containers["web"]) # params.scale["web"]
    /\ Len(frags) = 3

----------------------------------------------------------------------------
(* C18 *)

\* C18: the facts are collected in the last step of the invocation, after up,
\* stop, restart and scale: they have one entry for every container, running
\* or stopped, of every service of the graph, the running flag of each entry
\* is the running flag the container has when the invocation returns, and
\* collecting them issues no call and changes no container.
C18_FactsAreFinal ==
    [][pc = "facts" =>
        /\ pc' = "done"
        /\ calls' = calls
        /\ containers' = containers
        /\ \A s \in Services :
              /\ Len(result'.ansible_facts[s]) = Len(containers'[s])
              /\ \A i \in 1..Len(containers'[s]) :
                    result'.ansible_facts[s][i] = containers'[s][i].running
        /\ result'.changed = result.changed
        /\ result'.diff = result.diff
      ]_vars

\* up started web, stop stopped it, restart started it again and scale added
\* a container: the facts show two running web containers and the stopped db
\* container
C18_Witness ==
    /\ Returned
    /\ ~params.check_mode
    /\ params.services = {"web"}
    /\ ~params.dependencies
    /\ params.stopped /\ params.restarted
    /\ DOMAIN params.scale = {"web"}
    /\ snap0["db"] = <<[fp |-> TRUE, running |-> FALSE]>>
    /\ snap0["web"] = <<[fp |-> TRUE, running |-> FALSE]>>
    /\ {calls[i].op : i \in DOMAIN calls} = {"up", "start", "stop", "restart", "scale"}
    /\ result.ansible_facts["web"] = <<TRUE, TRUE>>
    /\ result.ansible_facts["db"] = <<FALSE>>

----------------------------------------------------------------------------
(* C19 *)

\* C19: after an execute-mode invocation with desired=present and stopped
\* set has returned, no container of a targeted service runs, whatever the
\* other modifiers (restarted, scale, force recreate) are.
C19_StoppedLeavesStopped ==
    (Returned /\ ~params.check_mode /\ params.state = "present" /\ params.stopped)
        => \A s \in TargetedServices(params) :
              \A i \in 1..Len(containers[s]) : ~containers[s][i].running

----------------------------------------------------------------------------
(* C20 *)

\* the place of a runtime call in an invocation: the base convergence action
\* first, then stop, then restart, then scale
Rank(op) ==
    CASE op = "stop"    -> 1
      [] op = "restart" -> 2
      [] op = "scale"   -> 3
      [] OTHER          -> 0

\* the operations cmd_up applies, in order, for the given parameters
ExpectedOps(p) ==
    <<"up">> \o (IF p.stopped THEN <<"stop">> ELSE <<>>)
             \o (IF p.restarted THEN <<"restart">> ELSE <<>>)
             \o (IF DOMAIN p.scale # {} THEN <<"scale">> ELSE <<>>)

\* C20: in an invocation with desired=present the runtime calls come in the
\* order up (with its per-service actions), stop, restart, scale; while the
\* up call is in progress no stop, restart or scale call has been issued; and
\* every modifier that is set has been applied, in that order, when the
\* invocation returns, also when the base plan reported no change.
C20_ModifierOrder ==
    params.state = "present" =>
        /\ \A i \in DOMAIN calls, j \in DOMAIN calls :
              i < j => Rank(calls[i].op) <= Rank(calls[j].op)
        /\ pc \in {"up", "converge"} =>
              \A i \in DOMAIN calls : Rank(calls[i].op) = 0
        /\ Returned =>
              /\ Len(frags) = Len(ExpectedOps(params))
              /\ \A i \in DOMAIN frags : frags[i].op = ExpectedOps(params)[i]

\* the base plan reported no change and up was not called; stop, restart and
\* the scale of web were applied all the same, in that order
C20_Witness ==
    /\ Returned
    /\ ~params.check_mode
    /\ params.stopped /\ params.restarted
    /\ DOMAIN params.scale = {"web"}
    /\ ~frags[1].changed
    /\ calls = <<Call("stop", "*"), Call("restart", "*"), Call("scale", "web")>>

----------------------------------------------------------------------------
(* C21 *)

\* the services project.up converges for the parameters: the requested ones
\* and, with dependencies on, everything they depend on
ConvergedServices(p) ==
    LET q == order(Graph, p.services, p.dependencies)
    IN  {q[i] : i \in DOMAIN q}

\* C21: in execute mode with a services filter and dependencies on, every
\* service whose containers the base convergence step created, recreated or
\* started is in the plan with an action other than none, and every service
\* execute would act on, a dependency of a requested service included, that
\* needs an action makes the base plan report changed = true.
C21_PlanDescribesExecute ==
    (Planned /\ ~params.check_mode /\ params.services # {} /\ params.dependencies)
        => /\ \A s \in Services :
                (ActedAt(s) # {} /\ params.diff)
                    => /\ frags[1].diff[s].present
                       /\ frags[1].diff[s].action \in ConvergeOps
           /\ \A s \in ConvergedServices(params) :
                convergence_plan(snap0[s], UpStrategy(params)).action # "noop"
                    => frags[1].changed

----------------------------------------------------------------------------
(* C22 *)

\* C22: after an execute-mode invocation with desired=absent has returned, no
\* service of the graph has a container left, whatever the services filter;
\* an invocation with desired=absent that follows it issues no down call and
\* reports changed = false.
C22_TeardownIsComplete ==
    (params.state = "absent" /\ ~params.check_mode)
        => /\ Returned => \A s \in Services : containers[s] = <<>>
           /\ first.ran => /\ calls = <<>>
                           /\ ~Failed
                           /\ Returned => ~result.changed

\* teardown with services=['web'] removed the db container as well; the
\* second teardown found nothing to do
C22_Witness ==
    /\ Returned
    /\ first.ran
    /\ params.state = "absent"
    /\ ~params.check_mode
    /\ params.services = {"web"}
    /\ first.changed
    /\ first.snap0["db"] # <<>>
    /\ first.snap0["web"] = <<>>
    /\ \A s \in Services : containers[s] = <<>>
    /\ ~result.changed
    /\ calls = <<>>

----------------------------------------------------------------------------
(* C23 *)

\* C23: the diff an invocation with desired=present returns holds the
\* entries of every operation that ran: a service that has an entry in the
\* diff of the base plan or of a modifier has one in the returned diff, and
\* when only one operation made an entry for it, that entry is the one
\* returned.
C23_DiffKeepsEveryEntry ==
    (Returned /\ params.state = "present")
        => \A s \in Services : \A i \in DOMAIN frags :
              frags[i].diff[s].present
                => /\ result.diff[s].present
                   /\ (\A j \in DOMAIN frags \ {i} : ~frags[j].diff[s].present)
                        => result.diff[s] = frags[i].diff[s]

====
